---- MODULE Spec2Model ----
(***************************************************************************)
(* State-machine model of the GPS point cache (gpsCache.ts), of the GPS    *)
(* live-data screen that throttles samples into it (GPSLiveDataScreen)     *)
(* and of the home screen that polls it (HomeScreen.tsx).                  *)
(***************************************************************************)
EXTENDS Integers, Sequences, FiniteSets, TLC

(***************************************************************************)
(* Program constants.                                                      *)
(***************************************************************************)
MAX_CACHE_ITEMS == 120

WINDOW_MS == 5000

POLL_MS == 5000

(***************************************************************************)
(* Bounds of the model.                                                    *)
(***************************************************************************)
\* number of appendGPSData calls the sequential caller issues
MaxAppends == 122

\* store faults (module missing, rejected getItem or setItem) happen while the
\* sequential caller has issued at most this many appends
MaxFaultAppends == 3

\* number of cache calls that can await the store at the same time
MaxCalls == 2

\* the last value of Date.now() the model reaches
MaxClock == 11000

\* number of watchPosition registrations of one screen instance
MaxWatches == 2

\* the number of samples of any value appended one after another
MaxAnyAppends == 2

\* the number of samples appended by callers that do not wait for one another
MaxWriterAppends == 3

\* HomeScreen is followed until Date.now() reaches this: two ticks after a mount
MaxHomeClock == 16000

\* the number of samples appended while HomeScreen polls
MaxPolledAppends == 1

(***************************************************************************)
(* Values.  Numbers of a sample are written as JavaScript number literals  *)
(* (strings), so that null, NaN and the infinities are values of their own.*)
(***************************************************************************)
Min(a, b) == IF a <= b THEN a ELSE b

NonFinite == {"NaN", "Infinity", "-Infinity"}

\* GPSDataPoint, with an integer timestamp
NoPoint ==
  [latitude |-> "0", longitude |-> "0", altitude |-> "null", accuracy |-> "null",
   timestamp |-> 0]

\* the sample sources of the model: which optional fields the k-th sample lacks
Patterns == {2, 3}

SampleAt(k, p) ==
  [latitude |-> IF k % 2 = 0 THEN "12.5" ELSE "-33.25",
   longitude |-> "77.75",
   altitude |-> IF k % p = 0 THEN "null" ELSE "910.5",
   accuracy |-> IF k % p = 1 THEN "null" ELSE "4.5",
   timestamp |-> k]

(***************************************************************************)
(* The item stored under GPS_CACHE_KEY, as getItem resolves it: null (no   *)
(* item), or a string, which is the empty string, a text that is not JSON, *)
(* the JSON text of a non-array, or the JSON text of an array.             *)
(***************************************************************************)
NoItem == [tag |-> "null", items |-> <<>>]

EmptyText == [tag |-> "empty", items |-> <<>>]

NotJSONText == [tag |-> "garbage", items |-> <<>>]

ObjectText == [tag |-> "object", items |-> <<>>]

ArrayText(items) == [tag |-> "array", items |-> items]

\* JSON.stringify of a number: a non-finite number is written as null
\* a serialisation that writes an absent value as zero
StringifyNumber_NullAsZero(v) == IF v \in NonFinite \cup {"null", "-0"} THEN "0" ELSE v

\* JSON.stringify of a number or null: NaN and the infinities are written as null
StringifyNumber(v) == IF v \in NonFinite THEN "null" ELSE IF v = "-0" THEN "0" ELSE v

StringifyPoint(pt) ==
  [latitude |-> StringifyNumber(pt.latitude),
   longitude |-> StringifyNumber(pt.longitude),
   altitude |-> StringifyNumber(pt.altitude),
   accuracy |-> StringifyNumber(pt.accuracy),
   timestamp |-> pt.timestamp]

\* JSON.stringify(next)
JSONstringify(window) == ArrayText([i \in 1..Len(window) |-> StringifyPoint(window[i])])

\* JSON.parse of a member of a stored array: each token is read back as its value
ParsePoint(obj) ==
  [latitude |-> obj.latitude,
   longitude |-> obj.longitude,
   altitude |-> obj.altitude,
   accuracy |-> obj.accuracy,
   timestamp |-> obj.timestamp]

\* JSON.parse(raw): throws on a text that is not JSON
JSONparse(text) ==
  CASE text.tag = "array" -> [threw |-> FALSE, isArray |-> TRUE,
                              value |-> [i \in 1..Len(text.items) |-> ParsePoint(text.items[i])]]
    [] text.tag = "object" -> [threw |-> FALSE, isArray |-> FALSE, value |-> <<>>]
    [] OTHER -> [threw |-> TRUE, isArray |-> FALSE, value |-> <<>>]

Returns(value) == [status |-> "ok", value |-> value]

Raises == [status |-> "raised", value |-> <<>>]

\* getCachedGPSData without its try block: the error of JSON.parse leaves the call
ParsedWindow_NoCatch(item) ==
  IF item.tag \in {"null", "empty"}
    THEN Returns(<<>>)
    ELSE LET parsed == JSONparse(item)
         IN  IF parsed.threw THEN Raises
             ELSE IF ~parsed.isArray THEN Returns(<<>>)
             ELSE Returns(parsed.value)

\* getCachedGPSData, from the item getItem resolved (!raw is true of null and of "")
ParsedWindow(item) ==
  IF item.tag \in {"null", "empty"}
    THEN Returns(<<>>)
    ELSE LET parsed == JSONparse(item)
         IN  IF parsed.threw THEN Returns(<<>>)
             ELSE IF ~parsed.isArray THEN Returns(<<>>)
             ELSE Returns(parsed.value)

\* the window read back from a stored item
WindowOf(item) == ParsedWindow(item).value

\* [point, ...existing] without the slice
NextWindow_NoSlice(point, existing) == <<point>> \o existing

\* [...existing, point].slice(0, MAX_CACHE_ITEMS): the new point goes last
NextWindow_PointLast(point, existing) ==
  SubSeq(existing \o <<point>>, 1, Min(Len(existing) + 1, MAX_CACHE_ITEMS))

\* [point, ...existing].slice(0, MAX_CACHE_ITEMS)
NextWindow(point, existing) ==
  SubSeq(<<point>> \o existing, 1, Min(Len(existing) + 1, MAX_CACHE_ITEMS))

(***************************************************************************)
(* State.                                                                  *)
(***************************************************************************)
VARIABLES
  storageReady,   \* getAsyncStorage() resolves the AsyncStorage module
  raw,            \* the item stored under GPS_CACHE_KEY
  calls,          \* the getCachedGPSData / appendGPSData calls awaiting the store
  clock,          \* Date.now()
  \* a caller that issues cache calls one after another
  ret,            \* what its last call returned, once it has returned
  issued,         \* number of appendGPSData calls it has issued
  nominal,        \* the key was absent at first and no append met a fault so far
  skipped,        \* timestamps of the samples it appended while the module was missing
  readyAtCall,    \* whether the module resolved when it issued its last call
  gotItem,        \* what getItem resolved for its last call
  appendGot,      \* what getItem resolved for its last append
  pattern,        \* its sample source
  \* GPSLiveDataScreen
  gpsScreen, permissionRequest, isRequestingPermission, isPermissionDeniedPermanently,
  geolocationReady, watches, nextWatchId, watchIdRef, lastCachedAtRef,
  gpsData, errorMessage, storageMessage,
  deliveries,     \* parity of the number of samples delivered to the screen
  fresh,          \* no sample was delivered since the last startLocationWatch
  admittedAt,     \* Date.now() of every sample handed to appendGPSData
  admittedAfterUnmount, \* a sample was handed to appendGPSData after the unmount
  appendFailed,       \* an append of the screen failed or found the module missing
  admittedAfterFailure, \* a sample was handed to appendGPSData after such a failure
  \* HomeScreen
  homeScreen, timerId, timerDue, cachedData, homeStorageMessage,
  unhandled,      \* promise rejections that no handler caught
  settled         \* how the call of a screen that settled last ended

storeVars == <<storageReady, raw>>

clientVars == <<issued, nominal, skipped, readyAtCall, gotItem, appendGot, pattern>>

gpsVars ==
  <<gpsScreen, permissionRequest, isRequestingPermission, isPermissionDeniedPermanently,
    geolocationReady, watches, nextWatchId, watchIdRef, lastCachedAtRef, gpsData,
    errorMessage, deliveries, fresh, admittedAt, admittedAfterUnmount,
    admittedAfterFailure>>

homeVars == <<homeScreen, timerId, timerDue, homeStorageMessage>>

\* the variables a settled call's continuation writes
contVars == <<ret, storageMessage, appendFailed, cachedData, unhandled, settled>>

vars == <<storeVars, calls, clock, clientVars, gpsVars, homeVars, contVars>>

(***************************************************************************)
(* Cache calls.  A call runs synchronously up to its first await (getItem),*)
(* and from the settling of one awaited promise to the next await or to    *)
(* its return; the continuation of its caller runs when it settles.        *)
(***************************************************************************)
CallIds == 1..MaxCalls

\* a call: where it waits, its caller, its point, Date.now() when it was issued, and
\* its locals existing and next
FreeCall ==
  [pc |-> "free", op |-> "none", owner |-> "none", point |-> NoPoint, at |-> 0,
   existing |-> <<>>, next |-> <<>>]

InFlight == {c \in CallIds : calls[c].pc # "free"}

HasFreeCall == InFlight # CallIds

FreeSlot == CHOOSE c \in CallIds \ InFlight : \A d \in CallIds \ InFlight : c <= d

\* no value of getItem: the call has not got one, or getItem rejected
NotGot == [tag |-> "none", items |-> <<>>]

NoRet == [op |-> "none", status |-> "none", value |-> <<>>, point |-> NoPoint]

None == "none"

\* watchIdRef.current === null
NoWatch == -1

StorageMissingMessage ==
  "Storage module missing. Run: npm i @react-native-async-storage/async-storage"

FailedToCacheMessage == "Failed to cache GPS sample."

FaultAllowed == issued <= MaxFaultAppends

\* the continuations, with appendGPSData(sample) left without its catch
Continue_NoCatch(owner, op, point, status, value) ==
  LET how == IF status = "ok" THEN "returned"
             ELSE IF \E c \in CallIds : calls[c].pc = "setItem" /\ calls'[c].pc = "free"
                    THEN "raised in setItem"
                    ELSE "raised in getItem"
  IN
  CASE owner = "client" ->
         /\ ret' = [op |-> op, status |-> status, value |-> value, point |-> point]
         /\ UNCHANGED <<storageMessage, appendFailed, cachedData, unhandled, settled>>
    [] owner = "gps" ->
         \* appendGPSData(sample).catch(() => setStorageMessage(...))
         /\ unhandled' = IF status = "raised" THEN unhandled \cup {"appendGPSData"} ELSE unhandled
         /\ appendFailed' = (appendFailed \/ status = "raised" \/ value = <<>>)
         /\ settled' = how
         /\ UNCHANGED <<ret, storageMessage, cachedData>>
    [] owner = "home" ->
         \* const data = await getCachedGPSData(); setCachedData(data);
         /\ cachedData' = IF status = "ok" THEN value ELSE cachedData
         /\ unhandled' = IF status = "raised" THEN unhandled \cup {"load"} ELSE unhandled
         /\ settled' = how
         /\ UNCHANGED <<ret, storageMessage, appendFailed>>

\* the caller's code that runs when its call settles with a value or raises
Continue(owner, op, point, status, value) ==
  LET how == IF status = "ok" THEN "returned"
             ELSE IF \E c \in CallIds : calls[c].pc = "setItem" /\ calls'[c].pc = "free"
                    THEN "raised in setItem"
                    ELSE "raised in getItem"
  IN
  CASE owner = "client" ->
         /\ ret' = [op |-> op, status |-> status, value |-> value, point |-> point]
         /\ UNCHANGED <<storageMessage, appendFailed, cachedData, unhandled, settled>>
    [] owner = "gps" ->
         \* appendGPSData(sample).catch(() => setStorageMessage(...))
         /\ storageMessage' = IF status = "raised" THEN FailedToCacheMessage ELSE storageMessage
         /\ appendFailed' = (appendFailed \/ status = "raised" \/ value = <<>>)
         /\ settled' = how
         /\ UNCHANGED <<ret, cachedData, unhandled>>
    [] owner = "home" ->
         \* const data = await getCachedGPSData(); setCachedData(data);
         /\ cachedData' = IF status = "ok" THEN value ELSE cachedData
         /\ unhandled' = IF status = "raised" THEN unhandled \cup {"load"} ELSE unhandled
         /\ settled' = how
         /\ UNCHANGED <<ret, storageMessage, appendFailed>>

\* the caller while its call awaits the store
Pending(owner) ==
  IF owner = "client"
    THEN ret' = NoRet /\ UNCHANGED <<storageMessage, appendFailed, cachedData, unhandled,
                                     settled>>
    ELSE UNCHANGED contVars

\* isStorageReady()
isStorageReady == storageReady

\* getCachedGPSData(), up to the await of getItem
getCachedGPSData(owner) ==
  IF ~storageReady
    THEN /\ calls' = calls
         /\ Continue(owner, "read", NoPoint, "ok", <<>>)
    ELSE /\ calls' = [calls EXCEPT ![FreeSlot] =
                        [pc |-> "getItem", op |-> "read", owner |-> owner,
                         point |-> NoPoint, at |-> clock, existing |-> <<>>,
                         next |-> <<>>]]
         /\ Pending(owner)

\* appendGPSData that hands the point back when the module is missing
appendGPSData_EchoesPoint(owner, point) ==
  IF ~storageReady
    THEN /\ calls' = calls
         /\ Continue(owner, "append", point, "ok", <<point>>)
    ELSE /\ calls' = [calls EXCEPT ![FreeSlot] =
                        [pc |-> "getItem", op |-> "append", owner |-> owner,
                         point |-> point, at |-> clock, existing |-> <<>>,
                         next |-> <<>>]]
         /\ Pending(owner)

\* appendGPSData(point), up to the await of getItem inside getCachedGPSData
appendGPSData(owner, point) ==
  IF ~storageReady
    THEN /\ calls' = calls
         /\ Continue(owner, "append", point, "ok", <<>>)
    ELSE /\ calls' = [calls EXCEPT ![FreeSlot] =
                        [pc |-> "getItem", op |-> "append", owner |-> owner,
                         point |-> point, at |-> clock, existing |-> <<>>,
                         next |-> <<>>]]
         /\ Pending(owner)

\* a read that removes an item it cannot parse
GetItemResolves_Repairs(c) ==
  /\ calls[c].pc = "getItem"
  /\ LET existing == ParsedWindow(raw)
     IN  IF calls[c].op = "read" \/ existing.status = "raised"
           THEN /\ calls' = [calls EXCEPT ![c] = FreeCall]
                /\ Continue(calls[c].owner, calls[c].op, calls[c].point,
                            existing.status, existing.value)
           ELSE /\ calls' = [calls EXCEPT ![c].pc = "setItem",
                                          ![c].existing = existing.value,
                                          ![c].next = NextWindow(calls[c].point, existing.value)]
                /\ UNCHANGED contVars
  /\ gotItem' = IF calls[c].owner = "client" THEN raw ELSE gotItem
  /\ appendGot' = IF calls[c].owner = "client" /\ calls[c].op = "append" THEN raw
                                                                         ELSE appendGot
  /\ raw' = IF calls[c].op = "read" /\ raw.tag \in {"garbage", "object"} THEN NoItem ELSE raw
  /\ UNCHANGED <<storageReady, clock, issued, nominal, skipped, readyAtCall, pattern,
                 gpsVars, homeVars>>

\* getItem resolves with the stored item: getCachedGPSData returns the parsed window,
\* and appendGPSData goes on to setItem
GetItemResolves(c) ==
  /\ calls[c].pc = "getItem"
  /\ LET existing == ParsedWindow(raw)
     IN  IF calls[c].op = "read" \/ existing.status = "raised"
           THEN /\ calls' = [calls EXCEPT ![c] = FreeCall]
                /\ Continue(calls[c].owner, calls[c].op, calls[c].point,
                            existing.status, existing.value)
           ELSE /\ calls' = [calls EXCEPT ![c].pc = "setItem",
                                          ![c].existing = existing.value,
                                          ![c].next = NextWindow(calls[c].point, existing.value)]
                /\ UNCHANGED contVars
  /\ gotItem' = IF calls[c].owner = "client" THEN raw ELSE gotItem
  /\ appendGot' = IF calls[c].owner = "client" /\ calls[c].op = "append" THEN raw
                                                                         ELSE appendGot
  /\ UNCHANGED <<storeVars, clock, issued, nominal, skipped, readyAtCall, pattern,
                 gpsVars, homeVars>>

\* getItem rejects: the await throws outside the try block, so the call raises
GetItemRejects(c) ==
  /\ calls[c].pc = "getItem"
  /\ FaultAllowed
  /\ calls' = [calls EXCEPT ![c] = FreeCall]
  /\ Continue(calls[c].owner, calls[c].op, calls[c].point, "raised", <<>>)
  /\ nominal' = (nominal /\ (calls[c].op = "read" \/ calls[c].owner # "client"))
  /\ UNCHANGED <<storeVars, clock, issued, skipped, readyAtCall, gotItem, appendGot, pattern,
                 gpsVars, homeVars>>

\* an append that would add its point to the window stored at the time of the write
SetItemResolves_OntoStored(c) ==
  /\ calls[c].pc = "setItem"
  /\ raw' = JSONstringify(NextWindow(calls[c].point, WindowOf(raw)))
  /\ calls' = [calls EXCEPT ![c] = FreeCall]
  /\ Continue(calls[c].owner, "append", calls[c].point, "ok",
              NextWindow(calls[c].point, WindowOf(raw)))
  /\ UNCHANGED <<storageReady, clock, clientVars, gpsVars, homeVars>>

\* setItem writes JSON.stringify(next) and resolves: appendGPSData returns next
SetItemResolves(c) ==
  /\ calls[c].pc = "setItem"
  /\ raw' = JSONstringify(calls[c].next)
  /\ calls' = [calls EXCEPT ![c] = FreeCall]
  /\ Continue(calls[c].owner, "append", calls[c].point, "ok", calls[c].next)
  /\ UNCHANGED <<storageReady, clock, clientVars, gpsVars, homeVars>>

\* setItem rejects without writing: appendGPSData raises
SetItemRejects(c) ==
  /\ calls[c].pc = "setItem"
  /\ FaultAllowed
  /\ calls' = [calls EXCEPT ![c] = FreeCall]
  /\ Continue(calls[c].owner, "append", calls[c].point, "raised", <<>>)
  /\ nominal' = (nominal /\ calls[c].owner # "client")
  /\ UNCHANGED <<storeVars, clock, issued, skipped, readyAtCall, gotItem, appendGot, pattern,
                 gpsVars, homeVars>>

\* the AsyncStorage module becomes resolvable, or stops being so
StorageModuleChanges ==
  /\ FaultAllowed
  /\ storageReady' = ~storageReady
  /\ UNCHANGED <<raw, calls, clock, clientVars, gpsVars, homeVars, contVars>>

(***************************************************************************)
(* A caller that issues read() and append(x) one after another, each       *)
(* completing before the next starts.                                      *)
(***************************************************************************)
ClientRead ==
  /\ InFlight = {}
  /\ getCachedGPSData("client")
  /\ readyAtCall' = storageReady
  /\ gotItem' = NotGot
  /\ UNCHANGED <<storeVars, clock, issued, nominal, skipped, appendGot, pattern, gpsVars,
                 homeVars>>

ClientAppend ==
  /\ InFlight = {}
  /\ issued < MaxAppends
  /\ issued' = issued + 1
  /\ nominal' = (nominal /\ storageReady)
  /\ skipped' = IF storageReady THEN skipped ELSE skipped \cup {issued + 1}
  /\ readyAtCall' = storageReady
  /\ gotItem' = NotGot
  /\ appendGPSData("client", SampleAt(issued + 1, pattern))
  /\ UNCHANGED <<storeVars, clock, appendGot, pattern, gpsVars, homeVars>>

\* the samples a caller may hand to appendGPSData: numbers, absent altitude or
\* accuracy, and values that are not finite
AnySamples(k) ==
  {[latitude |-> lat, longitude |-> "151.5", altitude |-> alt, accuracy |-> acc,
    timestamp |-> k] :
     lat \in {"-33.25", "NaN"}, alt \in {"0", "null", "Infinity"}, acc \in {"4.5", "null"}}

\* the sequential caller appends any such sample
ClientAppendsAny(sample) ==
  /\ InFlight = {}
  /\ issued < MaxAnyAppends
  /\ issued' = issued + 1
  /\ readyAtCall' = storageReady
  /\ gotItem' = NotGot
  /\ appendGPSData("client", sample)
  /\ UNCHANGED <<storeVars, clock, nominal, skipped, appendGot, pattern, gpsVars, homeVars>>

(***************************************************************************)
(* Callers that issue read() and append(x) without waiting for one         *)
(* another: a call may start while others are in flight.                   *)
(***************************************************************************)
WriterRead ==
  /\ HasFreeCall
  /\ getCachedGPSData("client")
  /\ readyAtCall' = storageReady
  /\ gotItem' = NotGot
  /\ UNCHANGED <<storeVars, clock, issued, nominal, skipped, appendGot, pattern, gpsVars,
                 homeVars>>

\* the k-th sample appended has a timestamp that no stored sample has
WriterAppend ==
  /\ HasFreeCall
  /\ issued < MaxWriterAppends
  /\ issued' = issued + 1
  /\ readyAtCall' = storageReady
  /\ gotItem' = NotGot
  /\ appendGPSData("client", SampleAt(MAX_CACHE_ITEMS + issued + 1, pattern))
  /\ UNCHANGED <<storeVars, clock, nominal, skipped, appendGot, pattern, gpsVars, homeVars>>

(***************************************************************************)
(* GPSLiveDataScreen.                                                      *)
(***************************************************************************)
PermissionResults == {"granted", "denied", "never_ask_again"}

PermissionDeniedMessage == "Location permission denied."

GeolocationMissingMessage ==
  "Geolocation module missing. Run: npm i @react-native-community/geolocation"

\* error.message of the sample source
SourceErrors == {"Location request timed out"}

\* the samples the source can deliver now: the altitude is absent every other second
GpsSamples ==
  {[latitude |-> "12.5", longitude |-> "77.75", altitude |-> a, accuracy |-> "4.5",
    timestamp |-> clock] : a \in {IF (clock \div 1000) % 2 = 0 THEN "null" ELSE "910.5"}}

\* the registered watches after clearLocationWatch
ClearedWatches ==
  IF watchIdRef = NoWatch \/ ~geolocationReady THEN watches ELSE watches \ {watchIdRef}

clearLocationWatch ==
  /\ watches' = ClearedWatches
  /\ watchIdRef' = NoWatch

\* startLocationWatch without its clearLocationWatch()
startLocationWatch_NoClear ==
  /\ storageMessage' = IF ~isStorageReady THEN StorageMissingMessage ELSE None
  /\ watches' = watches \cup {nextWatchId}
  /\ watchIdRef' = nextWatchId
  /\ nextWatchId' = nextWatchId + 1
  /\ fresh' = TRUE

\* startLocationWatch, up to the registration of the callbacks
startLocationWatch ==
  /\ storageMessage' = IF ~isStorageReady THEN StorageMissingMessage ELSE None
  /\ watches' = ClearedWatches \cup {nextWatchId}
  /\ watchIdRef' = nextWatchId
  /\ nextWatchId' = nextWatchId + 1
  /\ fresh' = TRUE

\* requestPermissionAndStartGPS, up to the await of the permission request
requestPermissionAndStartGPS ==
  IF isRequestingPermission
    THEN UNCHANGED <<isRequestingPermission, permissionRequest>>
    ELSE /\ isRequestingPermission' = TRUE
         /\ permissionRequest' = "pending"

\* the screen is mounted: its effect requests the permission
GPSMount ==
  /\ gpsScreen = "initial"
  /\ gpsScreen' = "mounted"
  /\ requestPermissionAndStartGPS
  /\ UNCHANGED <<storeVars, calls, clock, clientVars, homeVars, contVars,
                 isPermissionDeniedPermanently, geolocationReady, watches, nextWatchId,
                 watchIdRef, lastCachedAtRef, gpsData, errorMessage, deliveries, fresh,
                 admittedAt, admittedAfterUnmount, admittedAfterFailure>>

\* the 'Grant Location Permission' button, disabled while a request is pending
PressPermissionButton ==
  /\ gpsScreen = "mounted"
  /\ ~isRequestingPermission
  /\ nextWatchId < MaxWatches
  /\ requestPermissionAndStartGPS
  /\ UNCHANGED <<storeVars, calls, clock, clientVars, homeVars, contVars, gpsScreen,
                 isPermissionDeniedPermanently, geolocationReady, watches, nextWatchId,
                 watchIdRef, lastCachedAtRef, gpsData, errorMessage, deliveries, fresh,
                 admittedAt, admittedAfterUnmount, admittedAfterFailure>>

\* requestPermissionAndStartGPS, from the result of the permission request on
PermissionSettles(granted) ==
  /\ permissionRequest = "pending"
  /\ permissionRequest' = "none"
  /\ isPermissionDeniedPermanently' = (granted = "never_ask_again")
  /\ isRequestingPermission' = FALSE
  /\ IF granted # "granted"
       THEN /\ errorMessage' = PermissionDeniedMessage
            /\ clearLocationWatch
            /\ UNCHANGED <<nextWatchId, fresh, storageMessage>>
       ELSE IF ~geolocationReady
         THEN /\ errorMessage' = GeolocationMissingMessage
              /\ UNCHANGED <<watches, watchIdRef, nextWatchId, fresh, storageMessage>>
         ELSE /\ startLocationWatch
              /\ UNCHANGED errorMessage
  /\ UNCHANGED <<storeVars, calls, clock, clientVars, homeVars, ret, appendFailed, cachedData,
                 unhandled, settled, gpsScreen, geolocationReady, lastCachedAtRef, gpsData,
                 deliveries, admittedAt, admittedAfterUnmount, admittedAfterFailure>>

\* the success callback without lastCachedAtRef.current = now
PositionDelivered_NoStamp(sample) ==
  /\ watches # {}
  /\ errorMessage' = None
  /\ gpsData' = sample
  /\ deliveries' = 1 - deliveries
  /\ fresh' = FALSE
  /\ IF clock - lastCachedAtRef >= WINDOW_MS
       THEN /\ HasFreeCall
            /\ lastCachedAtRef' = lastCachedAtRef
            /\ admittedAt' = Append(admittedAt, clock)
            /\ admittedAfterUnmount' = (admittedAfterUnmount \/ gpsScreen = "unmounted")
            /\ admittedAfterFailure' = (admittedAfterFailure \/ appendFailed)
            /\ appendGPSData("gps", sample)
       ELSE UNCHANGED <<lastCachedAtRef, admittedAt, admittedAfterUnmount,
                        admittedAfterFailure, calls, contVars>>
  /\ UNCHANGED <<storeVars, clock, clientVars, homeVars, gpsScreen, permissionRequest,
                 isRequestingPermission, isPermissionDeniedPermanently, geolocationReady,
                 watches, nextWatchId, watchIdRef>>

\* a success callback that shows only the samples it hands to appendGPSData
PositionDelivered_ShowsAdmitted(sample) ==
  /\ watches # {}
  /\ errorMessage' = None
  /\ gpsData' = IF clock - lastCachedAtRef >= WINDOW_MS THEN sample ELSE gpsData
  /\ deliveries' = 1 - deliveries
  /\ fresh' = FALSE
  /\ IF clock - lastCachedAtRef >= WINDOW_MS
       THEN /\ HasFreeCall
            /\ lastCachedAtRef' = clock
            /\ admittedAt' = Append(admittedAt, clock)
            /\ admittedAfterUnmount' = (admittedAfterUnmount \/ gpsScreen = "unmounted")
            /\ admittedAfterFailure' = (admittedAfterFailure \/ appendFailed)
            /\ appendGPSData("gps", sample)
       ELSE UNCHANGED <<lastCachedAtRef, admittedAt, admittedAfterUnmount,
                        admittedAfterFailure, calls, contVars>>
  /\ UNCHANGED <<storeVars, clock, clientVars, homeVars, gpsScreen, permissionRequest,
                 isRequestingPermission, isPermissionDeniedPermanently, geolocationReady,
                 watches, nextWatchId, watchIdRef>>

\* the success callback of watchPosition
PositionDelivered(sample) ==
  /\ watches # {}
  /\ errorMessage' = None
  /\ gpsData' = sample
  /\ deliveries' = 1 - deliveries
  /\ fresh' = FALSE
  /\ IF clock - lastCachedAtRef >= WINDOW_MS
       THEN /\ HasFreeCall
            /\ lastCachedAtRef' = clock
            /\ admittedAt' = Append(admittedAt, clock)
            /\ admittedAfterUnmount' = (admittedAfterUnmount \/ gpsScreen = "unmounted")
            /\ admittedAfterFailure' = (admittedAfterFailure \/ appendFailed)
            /\ appendGPSData("gps", sample)
       ELSE UNCHANGED <<lastCachedAtRef, admittedAt, admittedAfterUnmount,
                        admittedAfterFailure, calls, contVars>>
  /\ UNCHANGED <<storeVars, clock, clientVars, homeVars, gpsScreen, permissionRequest,
                 isRequestingPermission, isPermissionDeniedPermanently, geolocationReady,
                 watches, nextWatchId, watchIdRef>>

\* a failure callback that also opens the throttle again
PositionError_OpensThrottle(message) ==
  /\ watches # {}
  /\ errorMessage' = message
  /\ lastCachedAtRef' = 0
  /\ UNCHANGED <<storeVars, calls, clock, clientVars, homeVars, contVars, gpsScreen,
                 permissionRequest, isRequestingPermission, isPermissionDeniedPermanently,
                 geolocationReady, watches, nextWatchId, watchIdRef,
                 gpsData, deliveries, fresh, admittedAt, admittedAfterUnmount, admittedAfterFailure>>

\* the failure callback of watchPosition
PositionError(message) ==
  /\ watches # {}
  /\ errorMessage' = message
  /\ UNCHANGED <<storeVars, calls, clock, clientVars, homeVars, contVars, gpsScreen,
                 permissionRequest, isRequestingPermission, isPermissionDeniedPermanently,
                 geolocationReady, watches, nextWatchId, watchIdRef, lastCachedAtRef,
                 gpsData, deliveries, fresh, admittedAt, admittedAfterUnmount, admittedAfterFailure>>

\* the screen is unmounted: the cleanup of its effect runs clearLocationWatch
GPSUnmount ==
  /\ gpsScreen = "mounted"
  /\ gpsScreen' = "unmounted"
  /\ clearLocationWatch
  /\ UNCHANGED <<storeVars, calls, clock, clientVars, homeVars, contVars,
                 permissionRequest, isRequestingPermission, isPermissionDeniedPermanently,
                 geolocationReady, nextWatchId, lastCachedAtRef, gpsData, errorMessage,
                 deliveries, fresh, admittedAt, admittedAfterUnmount, admittedAfterFailure>>

(***************************************************************************)
(* HomeScreen.                                                             *)
(***************************************************************************)
\* a load() that clears the message and reads nothing
load_NoRead ==
  /\ homeStorageMessage' = IF ~isStorageReady THEN StorageMissingMessage ELSE None
  /\ UNCHANGED <<calls, contVars>>

\* load(), up to the await of getCachedGPSData
load ==
  IF ~isStorageReady
    THEN /\ homeStorageMessage' = StorageMissingMessage
         /\ UNCHANGED <<calls, contVars>>
    ELSE /\ HasFreeCall
         /\ homeStorageMessage' = None
         /\ getCachedGPSData("home")

\* the effect with setInterval(load, 5000) only
HomeMount_NoFirstLoad ==
  /\ homeScreen = "initial"
  /\ homeScreen' = "mounted"
  /\ timerId' = "interval"
  /\ timerDue' = clock + POLL_MS
  /\ UNCHANGED <<storeVars, calls, clock, clientVars, gpsVars, contVars, homeStorageMessage>>

\* the screen is mounted: its effect runs load() and setInterval(load, 5000)
HomeMount ==
  /\ homeScreen = "initial"
  /\ homeScreen' = "mounted"
  /\ load
  /\ timerId' = "interval"
  /\ timerDue' = clock + POLL_MS
  /\ UNCHANGED <<storeVars, clock, clientVars, gpsVars>>

\* the interval elapses: load() runs again
HomeTimerFires ==
  /\ timerId # None
  /\ clock = timerDue
  /\ load
  /\ timerDue' = timerDue + POLL_MS
  /\ UNCHANGED <<storeVars, clock, clientVars, gpsVars, homeScreen, timerId>>

\* the cleanup of the effect without its clearInterval
HomeUnmount_NoClear ==
  /\ homeScreen \in {"mounted", "unmounted"}
  /\ homeScreen' = "unmounted"
  /\ UNCHANGED <<storeVars, calls, clock, clientVars, gpsVars, contVars, timerId, timerDue,
                 homeStorageMessage>>

\* the screen is unmounted: the cleanup of its effect runs clearInterval(timerId);
\* running the cleanup again clears a timer that is no longer registered
HomeUnmount ==
  /\ homeScreen \in {"mounted", "unmounted"}
  /\ homeScreen' = "unmounted"
  /\ timerId' = None
  /\ UNCHANGED <<storeVars, calls, clock, clientVars, gpsVars, contVars, timerDue,
                 homeStorageMessage>>

\* Date.now() when the model starts: ms since 1970, which is beyond WINDOW_MS on
\* every device; the least such value is taken
StartClock == WINDOW_MS

\* the amounts of time, in ms, by which Date.now() is seen to advance
ClockSteps == {1000, 5000}

\* time passes; an interval timer that is due fires before time goes on
ClockAdvances(d) ==
  /\ clock + d <= MaxClock
  /\ timerId # None => clock + d <= timerDue
  /\ clock' = clock + d
  /\ UNCHANGED <<storeVars, calls, clientVars, gpsVars, homeVars, contVars>>

\* time passes while HomeScreen is followed
HomeClockAdvances(d) ==
  /\ clock + d <= MaxHomeClock
  /\ timerId # None => clock + d <= timerDue
  /\ clock' = clock + d
  /\ UNCHANGED <<storeVars, calls, clientVars, gpsVars, homeVars, contVars>>

\* the interval goes on elapsing after Date.now() has passed MaxHomeClock, where
\* time is no longer counted: load() runs again and again
HomeTimerFiresLate ==
  /\ timerId # None
  /\ timerDue > MaxHomeClock
  /\ \A d \in ClockSteps : clock + d > MaxHomeClock
  /\ load
  /\ UNCHANGED <<storeVars, clock, clientVars, gpsVars, homeScreen, timerId, timerDue>>

\* the application appends a sample while HomeScreen polls
PolledAppend ==
  /\ issued < MaxPolledAppends
  /\ ClientAppend

(***************************************************************************)
(* Initial states.                                                         *)
(***************************************************************************)
InitialItems == {NoItem, EmptyText, NotJSONText, ObjectText}

\* the screen with lastCachedAtRef = useRef(Date.now())
InitGPSScreen_LastCachedNow ==
  /\ gpsScreen = "initial"
  /\ permissionRequest = "none"
  /\ isRequestingPermission = FALSE
  /\ isPermissionDeniedPermanently = FALSE
  /\ watches = {}
  /\ nextWatchId = 0
  /\ watchIdRef = NoWatch
  /\ lastCachedAtRef = clock
  /\ gpsData = NoPoint
  /\ errorMessage = None
  /\ storageMessage = None
  /\ deliveries = 0
  /\ fresh = TRUE
  /\ admittedAt = <<>>
  /\ admittedAfterUnmount = FALSE
  /\ appendFailed = FALSE
  /\ admittedAfterFailure = FALSE

InitGPSScreen ==
  /\ gpsScreen = "initial"
  /\ permissionRequest = "none"
  /\ isRequestingPermission = FALSE
  /\ isPermissionDeniedPermanently = FALSE
  /\ watches = {}
  /\ nextWatchId = 0
  /\ watchIdRef = NoWatch
  /\ lastCachedAtRef = 0
  /\ gpsData = NoPoint
  /\ errorMessage = None
  /\ storageMessage = None
  /\ deliveries = 0
  /\ fresh = TRUE
  /\ admittedAt = <<>>
  /\ admittedAfterUnmount = FALSE
  /\ appendFailed = FALSE
  /\ admittedAfterFailure = FALSE

InitHomeScreen ==
  /\ homeScreen = "initial"
  /\ timerId = None
  /\ timerDue = 0
  /\ cachedData = <<>>
  /\ homeStorageMessage = None
  /\ unhandled = {}
  /\ settled = None

InitCache ==
  /\ storageReady \in BOOLEAN
  /\ raw \in InitialItems
  /\ calls = [c \in CallIds |-> FreeCall]
  /\ clock = StartClock
  /\ ret = NoRet
  /\ issued = 0
  /\ nominal = (raw = NoItem)
  /\ skipped = {}
  /\ readyAtCall = storageReady
  /\ gotItem = NotGot
  /\ appendGot = NotGot
  /\ pattern \in Patterns
  /\ geolocationReady = TRUE
  /\ InitGPSScreen
  /\ InitHomeScreen

NextCache ==
  \/ ClientRead
  \/ ClientAppend
  \/ StorageModuleChanges
  \/ \E c \in CallIds : GetItemResolves(c)
  \/ \E c \in CallIds : GetItemRejects(c)
  \/ \E c \in CallIds : SetItemResolves(c)
  \/ \E c \in CallIds : SetItemRejects(c)

SpecCache == InitCache /\ [][NextCache]_vars

InitGPS ==
  /\ storageReady \in BOOLEAN
  /\ raw = NoItem
  /\ calls = [c \in CallIds |-> FreeCall]
  /\ clock = StartClock
  /\ ret = NoRet
  /\ issued = 0
  /\ nominal = TRUE
  /\ skipped = {}
  /\ readyAtCall = storageReady
  /\ gotItem = NotGot
  /\ appendGot = NotGot
  /\ pattern = 2
  /\ geolocationReady \in BOOLEAN
  /\ InitGPSScreen
  /\ InitHomeScreen

NextGPS ==
  \/ GPSMount
  \/ PressPermissionButton
  \/ \E granted \in PermissionResults : PermissionSettles(granted)
  \/ \E sample \in GpsSamples : PositionDelivered(sample)
  \/ \E message \in SourceErrors : PositionError(message)
  \/ GPSUnmount
  \/ \E d \in ClockSteps : ClockAdvances(d)
  \/ StorageModuleChanges
  \/ \E c \in CallIds : GetItemResolves(c)
  \/ \E c \in CallIds : GetItemRejects(c)
  \/ \E c \in CallIds : SetItemResolves(c)
  \/ \E c \in CallIds : SetItemRejects(c)

SpecGPS == InitGPS /\ [][NextGPS]_vars

\* the window that n appends of an earlier run left in the store
Prefilled(n) == [i \in 1..n |-> SampleAt(n - i + 1, 2)]

\* the store is found; it holds nothing, or a window one short of full, or a full one
InitWriters ==
  /\ storageReady = TRUE
  /\ raw \in {NoItem, JSONstringify(Prefilled(MAX_CACHE_ITEMS - 1)),
              JSONstringify(Prefilled(MAX_CACHE_ITEMS))}
  /\ calls = [c \in CallIds |-> FreeCall]
  /\ clock = StartClock
  /\ ret = NoRet
  /\ issued = 0
  /\ nominal = TRUE
  /\ skipped = {}
  /\ readyAtCall = storageReady
  /\ gotItem = NotGot
  /\ appendGot = NotGot
  /\ pattern = 2
  /\ geolocationReady = TRUE
  /\ InitGPSScreen
  /\ InitHomeScreen

NextWriters ==
  \/ WriterRead
  \/ WriterAppend
  \/ \E c \in CallIds : GetItemResolves(c)
  \/ \E c \in CallIds : SetItemResolves(c)

SpecWriters == InitWriters /\ [][NextWriters]_vars

\* the store is found; it holds nothing, or a window one short of full
InitRoundTrip ==
  /\ storageReady = TRUE
  /\ raw \in {NoItem, JSONstringify(Prefilled(MAX_CACHE_ITEMS - 1))}
  /\ calls = [c \in CallIds |-> FreeCall]
  /\ clock = StartClock
  /\ ret = NoRet
  /\ issued = 0
  /\ nominal = TRUE
  /\ skipped = {}
  /\ readyAtCall = storageReady
  /\ gotItem = NotGot
  /\ appendGot = NotGot
  /\ pattern = 2
  /\ geolocationReady = TRUE
  /\ InitGPSScreen
  /\ InitHomeScreen

NextRoundTrip ==
  \/ ClientRead
  \/ \E sample \in AnySamples(MAX_CACHE_ITEMS + issued + 1) : ClientAppendsAny(sample)
  \/ \E c \in CallIds : GetItemResolves(c)
  \/ \E c \in CallIds : SetItemResolves(c)

SpecRoundTrip == InitRoundTrip /\ [][NextRoundTrip]_vars

\* a window that an earlier run of the application stored
StoredWindow == JSONstringify(<<SampleAt(2, 2), SampleAt(1, 2)>>)

InitHome ==
  /\ storageReady \in BOOLEAN
  /\ raw \in InitialItems \cup {StoredWindow}
  /\ calls = [c \in CallIds |-> FreeCall]
  /\ clock = StartClock
  /\ ret = NoRet
  /\ issued = 0
  /\ nominal = TRUE
  /\ skipped = {}
  /\ readyAtCall = storageReady
  /\ gotItem = NotGot
  /\ appendGot = NotGot
  /\ pattern = 2
  /\ geolocationReady = TRUE
  /\ InitGPSScreen
  /\ InitHomeScreen

NextHome ==
  \/ HomeMount
  \/ HomeTimerFires
  \/ HomeUnmount
  \/ \E d \in ClockSteps : HomeClockAdvances(d)
  \/ PolledAppend
  \/ StorageModuleChanges
  \/ \E c \in CallIds : GetItemResolves(c)
  \/ \E c \in CallIds : GetItemRejects(c)
  \/ \E c \in CallIds : SetItemResolves(c)
  \/ \E c \in CallIds : SetItemRejects(c)

SpecHome == InitHome /\ [][NextHome]_vars

\* the timestamps of the samples of a window
Timestamps(window) == {window[i].timestamp : i \in 1..Len(window)}

\* HomeScreen stays mounted, the storage module stays found and every call to the
\* store resolves
InitHomeLive ==
  /\ storageReady = TRUE
  /\ raw \in {NoItem, NotJSONText, StoredWindow}
  /\ calls = [c \in CallIds |-> FreeCall]
  /\ clock = StartClock
  /\ ret = NoRet
  /\ issued = 0
  /\ nominal = TRUE
  /\ skipped = {}
  /\ readyAtCall = storageReady
  /\ gotItem = NotGot
  /\ appendGot = NotGot
  /\ pattern = 2
  /\ geolocationReady = TRUE
  /\ InitGPSScreen
  /\ InitHomeScreen

NextHomeLive ==
  \/ HomeMount
  \/ HomeTimerFires
  \/ HomeTimerFiresLate
  \/ \E d \in ClockSteps : HomeClockAdvances(d)
  \/ PolledAppend
  \/ \E c \in CallIds : GetItemResolves(c)
  \/ \E c \in CallIds : SetItemResolves(c)

\* the screen is mounted, time passes, the interval fires when due, and the store
\* answers every getItem and setItem; nothing obliges the application to append
FairHomeLive ==
  /\ WF_vars(HomeMount)
  /\ WF_vars(HomeTimerFires)
  /\ WF_vars(HomeTimerFiresLate)
  /\ WF_vars(\E d \in ClockSteps : HomeClockAdvances(d))
  /\ \A c \in CallIds : WF_vars(GetItemResolves(c)) /\ WF_vars(SetItemResolves(c))

SpecHomeLive == InitHomeLive /\ [][NextHomeLive]_vars /\ FairHomeLive

(***************************************************************************)
(* Properties of the cache under a sequential caller (SpecCache).          *)
(***************************************************************************)
\* the caller's last call was a read() that found the module and returned
ReadReturned == ret.op = "read" /\ ret.status = "ok" /\ readyAtCall

\* the window after appending SampleAt(1), ..., SampleAt(n) to an empty one
ExpectedWindow(n) ==
  [i \in 1..Min(n, MAX_CACHE_ITEMS) |-> SampleAt(n - i + 1, pattern)]

\* C1: starting from an absent key with the store available, after N appends
\* issued one after another, read() returns a sequence of length min(N, 120).
C1_CapacityInvariant ==
  (ReadReturned /\ nominal) => Len(ret.value) = Min(issued, MAX_CACHE_ITEMS)

C1_Witness ==
  /\ ReadReturned /\ nominal
  /\ issued = MAX_CACHE_ITEMS + 1
  /\ Len(ret.value) = MAX_CACHE_ITEMS

\* C2: after appending s1, ..., sk to an empty window, read() is [sk, ..., s1]
\* truncated to its first 120 entries.
C2_NewestFirst == (ReadReturned /\ nominal) => ret.value = ExpectedWindow(issued)

\* C2: an append of s on a full window W stores and returns s followed by the
\* first 119 entries of W.
C2_EvictsOldest ==
  (raw' # raw /\ Len(WindowOf(raw)) = MAX_CACHE_ITEMS)
    => /\ ret'.op = "append" /\ ret'.status = "ok"
       /\ ret'.value = <<ret'.point>> \o SubSeq(WindowOf(raw), 1, MAX_CACHE_ITEMS - 1)
       /\ WindowOf(raw') = ret'.value

\* C2: FIFO order and eviction of the oldest entry.
C2_FIFO == [](C2_NewestFirst) /\ [][C2_EvictsOldest]_vars

C2_Witness ==
  /\ ret.op = "append" /\ ret.status = "ok" /\ nominal
  /\ issued = MAX_CACHE_ITEMS + 2
  /\ ret.value = ExpectedWindow(issued)
  /\ ret.value[MAX_CACHE_ITEMS].timestamp = 3

\* C3: a call issued while the module is missing returns the empty sequence,
\* writes nothing and awaits nothing.
C3_UnavailableCall ==
  (InFlight = {} /\ ~storageReady /\ ~storageReady')
    => /\ raw' = raw
       /\ calls' = calls
       /\ ret'.status = "ok" /\ ret'.value = <<>>

\* C3: no sample appended while the module was missing is in the stored window
\* or in a window read later.
C3_NoTrace ==
  /\ \A i \in 1..Len(WindowOf(raw)) : WindowOf(raw)[i].timestamp \notin skipped
  /\ \A i \in 1..Len(ret.value) : ret.value[i].timestamp \notin skipped

\* C3: unavailable degradation.
C3_Unavailable == [](C3_NoTrace) /\ [][C3_UnavailableCall]_vars

C3_Witness ==
  /\ ReadReturned
  /\ skipped # {}
  /\ Len(ret.value) > 0
  /\ \E t \in skipped : t < ret.value[1].timestamp

\* C4: a read() whose getItem resolved a text that is not JSON, or the JSON
\* text of a non-array, returns the empty sequence and does not raise.
C4_MalformedRecovery ==
  (ret.op = "read" /\ gotItem.tag \in {"garbage", "object"})
    => (ret.status = "ok" /\ ret.value = <<>>)

C4_Witness ==
  /\ ret.op = "read" /\ gotItem.tag = "garbage"
  /\ ret.status = "ok" /\ ret.value = <<>>

\* C5: read() never raises: it returns a sequence whatever getItem does, the
\* empty sequence when getItem resolved no window.
C5_ReadNeverRaises ==
  ret.op = "read"
    => /\ ret.status = "ok"
       /\ (gotItem.tag # "array" => ret.value = <<>>)

\* the stored item is not the JSON text of an array
Malformed(item) == item.tag \in {"empty", "garbage", "object"}

\* C20: an append that finds a malformed item in the store takes the window to be
\* empty and goes on to write [s]; it raises no error.
C20_TakenAsEmpty ==
  \A c \in CallIds :
    (/\ calls[c].owner = "client" /\ calls[c].op = "append"
     /\ calls[c].pc = "getItem" /\ calls'[c].pc # "getItem"
     /\ gotItem' = raw
     /\ Malformed(raw)) =>
      /\ calls'[c].pc = "setItem"
      /\ calls'[c].existing = <<>>
      /\ calls'[c].next = <<calls[c].point>>
      /\ ret'.status # "raised"

\* C20: such an append returns [s] and leaves [s] in the store.
C20_Overwrites ==
  (ret.op = "append" /\ ret.status = "ok" /\ readyAtCall /\ Malformed(appendGot)) =>
    (ret.value = <<ret.point>> /\ raw = ArrayText(<<StringifyPoint(ret.point)>>))

\* C20: a read() after the append returns [s].
C20_ReadAfterwards ==
  (ReadReturned /\ issued = 1 /\ Malformed(appendGot) /\ gotItem.tag = "array") =>
    ret.value = <<SampleAt(1, pattern)>>

\* C20: append over malformed data.
C20_AppendOverMalformed ==
  /\ [](C20_Overwrites /\ C20_ReadAfterwards)
  /\ [][C20_TakenAsEmpty]_vars

\* a read() has returned [s] after s was appended over a text that is not JSON
C20_Witness ==
  /\ ReadReturned
  /\ issued = 1
  /\ appendGot = NotJSONText
  /\ gotItem.tag = "array"
  /\ ret.value = <<SampleAt(1, pattern)>>

\* the step starts or settles a read() that went to the store
ReadCallStep ==
  \E c \in CallIds : calls'[c] # calls[c] /\ "read" \in {calls[c].op, calls'[c].op}

\* the step is a read() that returns at once, no call being in flight
ReadReturnsAtOnce == InFlight = {} /\ ret'.op = "read" /\ ret' # ret

\* C22: no step of a read() writes the store: the stored item stays exactly as it
\* was, and a read call never waits for a setItem.
C22_ReadWritesNothing ==
  (ReadCallStep \/ ReadReturnsAtOnce) =>
    /\ raw' = raw
    /\ \A c \in CallIds : calls'[c].op = "read" => calls'[c].pc = "getItem"

\* C22: when the module is missing the availability test alone decides: the read
\* returns without any getItem or setItem.
C22_GateTouchesNothing ==
  ReadReturnsAtOnce =>
    (~storageReady /\ calls' = calls /\ gotItem' = NotGot /\ raw' = raw)

\* C22: after a read() the store holds the very item its getItem resolved, a
\* malformed one included: read() neither repairs nor clears it.
C22_NotRepaired == (ret.op = "read" /\ gotItem # NotGot) => raw = gotItem

\* C22: read() is a pure observer of the store.
C22_PureObserver ==
  /\ [](C22_NotRepaired)
  /\ [][C22_ReadWritesNothing]_vars
  /\ [][C22_GateTouchesNothing]_vars

\* a read() has returned [] for a stored JSON object, which is still stored
C22_Witness ==
  /\ ret.op = "read" /\ ret.status = "ok" /\ ret.value = <<>>
  /\ gotItem = ObjectText
  /\ raw = ObjectText

(***************************************************************************)
(* Properties of the serialisation (SpecRoundTrip).                        *)
(***************************************************************************)
\* every number of every sample of the window is finite
FiniteWindow(window) ==
  \A i \in 1..Len(window) :
    {window[i].latitude, window[i].longitude, window[i].altitude, window[i].accuracy}
      \cap NonFinite = {}

\* the caller's last call was an append that wrote its window and returned it
AppendWrote == ret.op = "append" /\ ret.status = "ok" /\ ret.value # <<>>

DeliveryStep == deliveries' # deliveries

\* the step hands the delivered sample to appendGPSData
Admitted ==
  /\ admittedAt' = Append(admittedAt, clock)
  /\ storageReady => \E c \in CallIds :
                       /\ calls[c].pc = "free"
                       /\ calls'[c].pc = "getItem" /\ calls'[c].op = "append"
                       /\ calls'[c].point = gpsData'

NotAdmitted == admittedAt' = admittedAt /\ calls' = calls /\ raw' = raw

LastAdmittedAt == IF admittedAt = <<>> THEN 0 ELSE admittedAt[Len(admittedAt)]

\* C6: a delivered sample is handed to append if and only if
\* now - lastCachedAtRef >= 5000, and lastCachedAtRef is then set to now.
C6_AdmitRule ==
  DeliveryStep =>
    IF clock - lastCachedAtRef >= WINDOW_MS
      THEN Admitted /\ lastCachedAtRef' = clock
      ELSE NotAdmitted /\ lastCachedAtRef' = lastCachedAtRef

\* C6: any two samples admitted by the same screen instance are at least 5000 ms apart.
C6_Spacing ==
  \A i, j \in 1..Len(admittedAt) : i < j => admittedAt[j] - admittedAt[i] >= WINDOW_MS

\* C6: the throttle admits at most once per window of 5000 ms.
C6_Throttle == [](C6_Spacing) /\ [][C6_AdmitRule]_vars

C6_Witness ==
  /\ Len(admittedAt) = 2
  /\ admittedAt[2] - admittedAt[1] = WINDOW_MS
  /\ gpsData.timestamp > admittedAt[2]
  /\ lastCachedAtRef = admittedAt[2]

\* C7 as claimed: the first sample delivered after every start of the watch,
\* a re-start on the same screen instance included, is admitted.
C7_FirstSampleOfEveryStart == [][(DeliveryStep /\ fresh) => Admitted]_vars

\* C7: the first sample delivered after the first start of the watch of a screen
\* instance is admitted whatever time has passed; the first sample after a re-start
\* is admitted if and only if no sample was admitted before or the last admitted
\* one is at least 5000 ms old.
C7_FirstSample ==
  [][(DeliveryStep /\ fresh) =>
       /\ nextWatchId = 1 => Admitted
       /\ nextWatchId > 1 =>
            IF admittedAt = <<>> \/ clock - LastAdmittedAt >= WINDOW_MS
              THEN Admitted ELSE NotAdmitted]_vars

C7_Witness ==
  /\ nextWatchId = 2 /\ ~fresh
  /\ Len(admittedAt) = 1
  /\ gpsData.timestamp > admittedAt[1]
  /\ gpsData.timestamp - admittedAt[1] < WINDOW_MS

\* C8: a failure of an admitted append is caught by the callback.
C8_FailureCaught == "appendGPSData" \notin unhandled

\* C8: after an append of the screen failed or found the module missing, a sample
\* delivered at least 5000 ms after the last admission is admitted.
C8_StillAdmits ==
  (DeliveryStep /\ appendFailed /\ clock - LastAdmittedAt >= WINDOW_MS) => Admitted

\* C8: the throttle never stops admitting because of a downstream failure.
C8_ThrottleSurvivesFailure == [](C8_FailureCaught) /\ [][C8_StillAdmits]_vars

C8_Witness ==
  /\ admittedAfterFailure
  /\ storageMessage = FailedToCacheMessage
  /\ Len(admittedAt) = 2

\* C9: once the screen is unmounted no location watch remains active and no
\* further sample is admitted to append.
C9_UnmountStopsPersistence ==
  gpsScreen = "unmounted" => (watches = {} /\ ~admittedAfterUnmount)

\* the appendGPSData calls of the screen that have not settled
GpsAppendsInFlight == {c \in CallIds : calls[c].owner = "gps" /\ calls[c].pc # "free"}

\* C14 as stated, whatever the latency of the store: the screen never has two
\* appends in flight; every admitted append has completed before the next sample
\* is admitted.
C14_OneAppendInFlight == Cardinality(GpsAppendsInFlight) <= 1

\* C14: two appends of the screen in flight were admitted 5000 ms or more apart,
\* so that the earlier one has been in flight for 5000 ms or more.
C14_InFlightApart ==
  \A c, d \in GpsAppendsInFlight :
    calls[c].at < calls[d].at =>
      (calls[d].at - calls[c].at >= WINDOW_MS /\ clock - calls[c].at >= WINDOW_MS)

\* C14: an append still in flight when the next sample is admitted has been in
\* flight for 5000 ms or more: every append that settles in less than 5000 ms has
\* completed before the next sample is admitted.
C14_CompletedBeforeNext ==
  (DeliveryStep /\ admittedAt' # admittedAt) =>
    \A c \in GpsAppendsInFlight : clock - calls[c].at >= WINDOW_MS

\* C14: the throttle serialises the appends that settle in less than 5000 ms.
C14_SerialisedWhenTimely ==
  /\ [](C14_InFlightApart)
  /\ [](\A c, d \in GpsAppendsInFlight : c # d => calls[c].at # calls[d].at)
  /\ [][C14_CompletedBeforeNext]_vars

\* the second admitted append is in flight after the first has returned and written
C14_Witness ==
  /\ Len(admittedAt) = 2
  /\ GpsAppendsInFlight # {}
  /\ \A c \in GpsAppendsInFlight : calls[c].at = admittedAt[2]
  /\ settled = "returned"
  /\ Len(WindowOf(raw)) = 1

\* the step runs the failure callback of the watch
ErrorStep ==
  /\ errorMessage' # errorMessage
  /\ errorMessage' \notin {None, PermissionDeniedMessage, GeolocationMissingMessage}

\* C15: an error of the sample source is shown with its message unchanged; no
\* append is issued, and the stored window, lastCachedAtRef and the live value stay
\* as they were.
C15_ErrorFrame ==
  ErrorStep =>
    /\ errorMessage' \in SourceErrors
    /\ calls' = calls
    /\ raw' = raw
    /\ lastCachedAtRef' = lastCachedAtRef
    /\ admittedAt' = admittedAt
    /\ gpsData' = gpsData
    /\ storageMessage' = storageMessage

\* C15: sample-source error.
C15_SourceError == [][C15_ErrorFrame]_vars

\* an error is shown after a sample was admitted and stored
C15_Witness ==
  /\ errorMessage \in SourceErrors
  /\ lastCachedAtRef = StartClock
  /\ Len(WindowOf(raw)) = 1
  /\ gpsData.timestamp = StartClock
  /\ calls = [c \in CallIds |-> FreeCall]

\* the step is setItem rejecting in an appendGPSData call of the screen
SetItemRejected ==
  /\ \E c \in CallIds :
       calls[c].owner = "gps" /\ calls[c].pc = "setItem" /\ calls'[c].pc = "free"
  /\ settled' = "raised in setItem"

\* C16: when setItem rejects in an admitted append, the advisory message
\* 'Failed to cache GPS sample.' is set, the rejection is handled, the stored window
\* is not written and the live value is not touched.
C16_WriteFailureStep ==
  SetItemRejected =>
    /\ storageMessage' = FailedToCacheMessage
    /\ unhandled' = unhandled
    /\ raw' = raw
    /\ gpsData' = gpsData
    /\ errorMessage' = errorMessage

\* C16: while an admitted append is in flight the live value is its sample, or a
\* sample delivered later.
C16_LiveValueKept ==
  \A c \in GpsAppendsInFlight :
    gpsData.timestamp >= calls[c].point.timestamp /\ calls[c].point.timestamp = calls[c].at

\* C16: write failure.
C16_WriteFailure ==
  /\ [](C16_LiveValueKept /\ "appendGPSData" \notin unhandled)
  /\ [][C16_WriteFailureStep]_vars

\* setItem rejected for the first admitted sample, which is still the live value
C16_Witness ==
  /\ settled = "raised in setItem"
  /\ storageMessage = FailedToCacheMessage
  /\ raw = NoItem
  /\ admittedAt = <<StartClock>>
  /\ gpsData.timestamp = StartClock
  /\ unhandled = {}

\* C19: every delivered sample becomes the live value; a sample delivered less than
\* 5000 ms after lastCachedAtRef starts no store call and leaves the stored window
\* and lastCachedAtRef as they were.
C19_DeliveryFrame ==
  DeliveryStep =>
    /\ gpsData' \in GpsSamples
    /\ clock - lastCachedAtRef < WINDOW_MS =>
         /\ calls' = calls
         /\ raw' = raw
         /\ lastCachedAtRef' = lastCachedAtRef
         /\ admittedAt' = admittedAt
         /\ storageMessage' = storageMessage

\* C19: sample not admitted.
C19_NotAdmittedSample == [][C19_DeliveryFrame]_vars

\* a sample delivered 1000 ms after the admitted one is live and not stored
C19_Witness ==
  /\ admittedAt = <<StartClock>>
  /\ lastCachedAtRef = StartClock
  /\ gpsData.timestamp = StartClock + 1000
  /\ calls = [c \in CallIds |-> FreeCall]
  /\ Timestamps(WindowOf(raw)) = {StartClock}

\* C23: at most one watch is registered and not cleared, and watchIdRef holds its
\* id; no watch is registered while watchIdRef is null.
C23_OneWatch ==
  /\ Cardinality(watches) <= 1
  /\ watches = IF watchIdRef = NoWatch THEN {} ELSE {watchIdRef}

\* C23: a step that registers a watch leaves it as the only one: the watch
\* registered before it has been cleared.
C23_ClearsBeforeRegistering ==
  nextWatchId' # nextWatchId =>
    (watches' = {nextWatchId} /\ watchIdRef' = nextWatchId /\ watches \cap watches' = {})

\* C23: at most one location watch per screen instance.
C23_AtMostOneWatch == [](C23_OneWatch) /\ [][C23_ClearsBeforeRegistering]_vars

\* the watch was started a second time: the first watch is cleared, the second is
\* registered and watchIdRef holds its id
C23_Witness ==
  /\ nextWatchId = 2
  /\ watches = {1}
  /\ watchIdRef = 1
  /\ gpsScreen = "mounted"

(***************************************************************************)
(* Properties of the poller of HomeScreen (SpecHome).                      *)
(***************************************************************************)
\* the step issues a getCachedGPSData call of HomeScreen
HomeReadIssued ==
  \E c \in CallIds : calls[c].pc = "free" /\ calls'[c].pc # "free" /\ calls'[c].owner = "home"

\* C10: after the screen is unmounted its interval timer is released.
C10_TimerReleased == homeScreen = "unmounted" => timerId = None

\* C10: after the screen is unmounted no further read() is issued and load() no
\* longer runs, however far the clock advances.
C10_NoReadAfterUnmount ==
  homeScreen = "unmounted" =>
    (~HomeReadIssued /\ homeStorageMessage' = homeStorageMessage /\ timerDue' = timerDue)

\* C10: poller lifecycle.
C10_PollerLifecycle == [](C10_TimerReleased) /\ [][C10_NoReadAfterUnmount]_vars

C10_Witness ==
  /\ homeScreen = "unmounted"
  /\ timerDue > 0
  /\ clock > timerDue

\* the step runs load(): the effect of the mount, or a tick of the interval
LoadRuns == homeScreen' = "mounted" /\ timerDue' # timerDue

\* the step issues exactly one getCachedGPSData call of HomeScreen, at this moment
OneHomeReadIssued ==
  /\ Cardinality({c \in CallIds : calls[c].pc = "free" /\ calls'[c].pc # "free"}) = 1
  /\ \A c \in CallIds :
       (calls[c].pc = "free" /\ calls'[c].pc # "free") =>
         (calls'[c].owner = "home" /\ calls'[c].op = "read" /\ calls'[c].at = clock)
  /\ clock' = clock

\* the step is a getCachedGPSData call of HomeScreen returning its window
HomeReadReturns ==
  /\ \E c \in CallIds : calls[c].owner = "home" /\ calls[c].pc # "free" /\ calls'[c].pc = "free"
  /\ settled' = "returned"

\* C11 as stated: on activation one read() is issued immediately, and one read() on
\* every later 5000 ms tick while the poller is active.
C11_ReadOnEveryTick == [][LoadRuns => OneHomeReadIssued]_vars

\* C11: load() runs on activation, before any interval has elapsed, and on every
\* 5000 ms tick while the timer is registered; when the storage module is found it
\* issues one read(), and when the module is missing it issues none and sets the
\* advisory message.
C11_LoadOnEveryTick ==
  LoadRuns =>
    /\ homeScreen = "initial" \/ clock = timerDue
    /\ IF storageReady THEN OneHomeReadIssued
                        ELSE calls' = calls /\ homeStorageMessage' = StorageMissingMessage

\* C11: no tick is passed over: the next tick is never more than 5000 ms away and
\* the clock never goes beyond it while the timer is registered.
C11_NoTickMissed ==
  timerId # None => (clock <= timerDue /\ timerDue <= clock + POLL_MS)

\* C11: each read that returns replaces the published sequence, in full, by the
\* sequence read.
C11_Publishes == HomeReadReturns => cachedData' = WindowOf(raw)

\* C11: poller cadence.
C11_Cadence ==
  /\ [](C11_NoTickMissed)
  /\ [][C11_LoadOnEveryTick]_vars
  /\ [][C11_Publishes]_vars

C11_Witness ==
  /\ homeScreen = "mounted"
  /\ timerDue >= StartClock + 3 * POLL_MS
  /\ settled = "returned"
  /\ calls = [c \in CallIds |-> FreeCall]
  /\ issued = MaxPolledAppends
  /\ Len(cachedData) = 3
  /\ cachedData = WindowOf(raw)
  /\ cachedData[1].timestamp = issued

\* the published sequence is the stored window
Reflected == cachedData = WindowOf(raw)

\* C21: while HomeScreen stays mounted, the module stays found and the calls to
\* the store resolve, the published sequence eventually equals the stored window
\* and stays equal to it from then on, the last append having completed.
C21_EventualReflection ==
  <>[](Reflected /\ \A c \in InFlight : calls[c].op # "append")

\* the sample appended to an empty store is published, beyond the last counted tick
C21_Witness ==
  /\ homeScreen = "mounted"
  /\ issued = 1
  /\ timerDue > MaxHomeClock
  /\ calls = [c \in CallIds |-> FreeCall]
  /\ raw = JSONstringify(<<SampleAt(1, 2)>>)
  /\ cachedData = <<SampleAt(1, 2)>>

\* C12: on every tick at which the storage module is missing, the published window
\* is the empty sequence, the advisory message is set and no error is raised; on a
\* tick at which the module is found the advisory message is cleared.
C12_UnavailableTick ==
  [][LoadRuns =>
       IF storageReady
         THEN homeStorageMessage' = None
         ELSE /\ cachedData' = <<>>
              /\ homeStorageMessage' = StorageMissingMessage
              /\ unhandled' = unhandled]_vars

(***************************************************************************)
(* Properties of the cache under callers that do not wait for one another  *)
(* (SpecWriters).                                                          *)
(***************************************************************************)
\* call c read the window W, and since then another append, which had read W as
\* well, has written its own sample a in front of W
RivalWrote(c) ==
  LET stored == WindowOf(raw)
      W == calls[c].existing
  IN  /\ stored # <<>>
      /\ stored[1].timestamp \notin Timestamps(W)
      /\ Len(stored) = Min(Len(W) + 1, MAX_CACHE_ITEMS)
      /\ \A i \in 2..Len(stored) : stored[i] = W[i - 1]

\* C13: when appends of a and of b both read the window W before either writes and
\* the write of a comes first, the write of b leaves [b] followed by W, truncated to
\* 120, in the store; a is not in it, and b's append returns that window and no
\* error.
C13_LaterWriteWins ==
  \A c \in CallIds :
    (calls[c].pc = "setItem" /\ calls'[c].pc = "free" /\ RivalWrote(c)) =>
      LET W == calls[c].existing
          a == WindowOf(raw)[1]
          final == WindowOf(raw')
      IN  /\ Len(final) = Min(Len(W) + 1, MAX_CACHE_ITEMS)
          /\ final[1] = calls[c].point
          /\ \A i \in 2..Len(final) : final[i] = W[i - 1]
          /\ a.timestamp \notin Timestamps(final)
          /\ ret' = [op |-> "append", status |-> "ok", value |-> final,
                     point |-> calls[c].point]
          /\ unhandled' = unhandled

\* C13: the accepted lost-update race.
C13_LostUpdate == [][C13_LaterWriteWins]_vars

\* two appends onto a full window have completed and only one sample is stored
C13_Witness ==
  /\ issued = 2
  /\ calls = [c \in CallIds |-> FreeCall]
  /\ ret.op = "append"
  /\ Len(WindowOf(raw)) = MAX_CACHE_ITEMS
  /\ WindowOf(raw)[2] = SampleAt(MAX_CACHE_ITEMS, 2)
  /\ Cardinality(Timestamps(WindowOf(raw))
                   \cap {MAX_CACHE_ITEMS + 1, MAX_CACHE_ITEMS + 2}) = 1

\* C18: from a stored window of at most 120 entries, whatever the interleaving of
\* the reads and appends of callers that do not wait for one another, the stored
\* window has at most 120 entries, and so has every window an append computes and
\* returns.
C18_CapacityUnderConcurrency ==
  /\ Len(WindowOf(raw)) <= MAX_CACHE_ITEMS
  /\ \A c \in CallIds : Len(calls[c].next) <= MAX_CACHE_ITEMS
  /\ ret.op = "append" => Len(ret.value) <= MAX_CACHE_ITEMS

\* an append onto a full window has returned a full window while another append,
\* which read the full window too, is about to write
C18_Witness ==
  /\ ret.op = "append"
  /\ Len(ret.value) = MAX_CACHE_ITEMS
  /\ Len(WindowOf(raw)) = MAX_CACHE_ITEMS
  /\ \E c \in CallIds :
       /\ calls[c].pc = "setItem"
       /\ Len(calls[c].existing) = MAX_CACHE_ITEMS
       /\ Len(calls[c].next) = MAX_CACHE_ITEMS

====
